---- MODULE Spec2Model ----
(***************************************************************************)
(* Model of loads.runner.Runner (src/loads/runner.py): the orchestration   *)
(* of concurrency levels under gevent's cooperative scheduling.            *)
(*                                                                         *)
(* One greenlet runs at a time.  The main greenlet executes execute() /    *)
(* _execute(); the spawned greenlets (_run workers, the inner spawn_test   *)
(* loops of duration mode, _grefresh) run only while the main greenlet is  *)
(* suspended at one of its yield points (gevent.joinall, gevent.sleep(0)); *)
(* what the main greenlet does between two yield points is one step.       *)
(* A call of the test target performs I/O and therefore suspends inside    *)
(* the call: an invocation begins in one step and returns in a later one.  *)
(***************************************************************************)
EXTENDS Integers, Sequences, FiniteSets, TLC

\* ---- bounds of the explored configurations ----
MaxLevels == 2      \* longest list of concurrency levels (users)
MaxUser == 2        \* largest concurrency level
MaxWorkers == 3     \* most workers of a hit-count plan, over all its levels
MaxTotal == 6       \* most invocations of a hit-count plan (its total)
MaxHitsLen == 2     \* longest list of hit batches
MaxHit == 2         \* largest hit batch
MaxOutputs == 2     \* registered outputs of a local run
MaxObservers == 2   \* observers of a run
MaxIter == 2        \* iterations explored of the unbounded spawn_test loops of a run
MaxOrphans == 2     \* most workers of a duration plan, over all its levels
MaxErrors == 1      \* errors and failures the sink is let to count
Duration == 1       \* the duration of a duration plan
MaxTicks == 1       \* ticks explored of the refresh loop before the one that ends it
MaxSessions == 2    \* measurement sessions (one per test case instance)
MaxRequests == 2    \* requests dispatched through the sessions
MaxClock == 2       \* ticks of the clock read by datetime.utcnow()
MaxStrLen == 3      \* longest string given for users or hits
MaxAgents == 2      \* largest number of agents

\* the character codes of ':' and of '0'
Colon == 58
Zero == 48

\* Python's None and an optional value, as a sequence of length 0 or 1.
None == <<>>
Some(x) == <<x>>
IsNone(o) == o = <<>>
Val(o) == o[1]

RECURSIVE SumSeq(_)
SumSeq(s) == IF s = <<>> THEN 0 ELSE Head(s) + SumSeq(Tail(s))

SeqsUpTo(S, n) == UNION {[1..k -> S] : k \in 1..n}

VARIABLES
    given,      \* history: the args as passed to Runner(args)
    args,       \* self.args: hits, users, agents and total are rewritten in it
    users,      \* self.users: the concurrency levels, in order
    hits,       \* self.hits: None or the list of hit batches
    duration,   \* self.duration: None or the duration
    agents,     \* self.agents
    total,      \* self.total
    slave,      \* self.slave
    test,       \* self.test: "method" has im_class, "plain" has not
    outputs,    \* self.outputs: each output's capabilities
    observers,  \* self.observers: the observers, by name
    stop,       \* self.stop
    running,    \* self.running: "unset" until execute() sets it
    mpc,        \* position of the main greenlet in execute()/_execute()
    level,      \* index in users of the level of the for loop of _execute
    exception,  \* the local `exception` of _execute
    wpc,        \* position of each _run greenlet
    pos,        \* each hit-count worker's <<index in hits, current_hit>>
    ipc,        \* position of each worker's inner spawn_test greenlet
    ihit,       \* the local `hit` of each spawn_test loop
    calls,      \* per worker, the loads_status of each invocation begun
    nb_errors,  \* errors reported to test_result (nb_errors of the aggregator)
    nb_failures,\* failures reported to test_result (nb_failures of the aggregator)
    gpc,        \* the _grefresh task: "none", "pending" (scheduled), "dead"
    refreshed,  \* per output, the number of refresh() calls
    sink,       \* calls received by test_result: startTestRun/stopTestRun/close
    flushed,    \* per output, the number of flush() calls
    notified,   \* the observers invoked by test_ended, in order, with outcome
    finalized,  \* number of times the finally block of _execute was entered
    events,     \* the assignments of self.running (1: True, 0: False), the calls
                \* of the sink, the spawn and the join of each level, the
                \* gevent.sleep(0) after the loop, the calls of the outputs and
                \* the observers, and the exit of execute(), in the order they
                \* were made
    retval,     \* None or the value execute() returned
    escaped,    \* the exception that left execute(), "None" if none
    stopAtExecute, \* history: the value of stop when execute() was called
    interrupted,\* history: a KeyboardInterrupt reached the orchestration body
    exposes,    \* per session, whether its test has current_cycle / current_user
    inflight,   \* per session, None or the request being exchanged by send()
    stream,     \* the global metrics stream: None or its name
    metrics,    \* the data pushed to the metrics streams, in order
    now,        \* the clock read by datetime.utcnow()
    exchanges   \* history: the exchanges that ended, in order, as the HTTP
                \* client saw them

config == <<given, args, users, hits, duration, agents, total, slave, test, outputs, observers>>
mainv == <<running, mpc, level, exception, retval, escaped, stopAtExecute, interrupted>>
workv == <<wpc, pos, ipc, ihit, calls>>
countv == <<nb_errors, nb_failures>>
finalv == <<sink, flushed, notified, finalized, events>>
refv == <<gpc, refreshed>>
runnerv == <<config, stop, mainv, workv, countv, refv, finalv>>
measurev == <<exposes, inflight, stream, metrics, now, exchanges>>
vars == <<runnerv, measurev>>

\* ---- _compute_arguments ----
\* A value of args['users'] or args['hits'] is a string, a sequence of
\* character codes, or a list of integers.
Str(cs) == [kind |-> "str", val |-> cs]
List(xs) == [kind |-> "list", val |-> xs]

RECURSIVE split(_)
\* cs.split(':')
split(cs) ==
    IF \A i \in 1..Len(cs) : cs[i] # Colon THEN <<cs>>
    ELSE LET i == CHOOSE k \in 1..Len(cs) :
                      cs[k] = Colon /\ \A j \in 1..(k - 1) : cs[j] # Colon
         IN <<SubSeq(cs, 1, i - 1)>> \o split(SubSeq(cs, i + 1, Len(cs)))

\* int(cs) raises ValueError unless cs is a string of digits
IsInt(cs) == cs # <<>> /\ \A i \in 1..Len(cs) : cs[i] \in Zero..(Zero + 9)

RECURSIVE int(_)
int(cs) ==
    IF Len(cs) = 1 THEN cs[1] - Zero
    ELSE int(SubSeq(cs, 1, Len(cs) - 1)) * 10 + (cs[Len(cs)] - Zero)

\* [int(x) for x in v.split(':')] for a string, the list itself for a list
IntList(v) ==
    IF v.kind = "str" THEN [k \in 1..Len(split(v.val)) |-> int(split(v.val)[k])]
    ELSE v.val

\* no int() of the conversion raises
Parses(v) == v.kind = "str" => \A k \in 1..Len(split(v.val)) : IsInt(split(v.val)[k])

\* args.get('users', '1')
get_users(a_users) == IF IsNone(a_users) THEN Str(<<Zero + 1>>) ELSE Val(a_users)

\* args.get('hits'), '1' when duration and hits are both None
get_hits(a_hits, a_duration) ==
    IF IsNone(a_duration) /\ IsNone(a_hits) THEN Some(Str(<<Zero + 1>>)) ELSE a_hits

\* args.get('agents', 1): the key may be absent, or hold None or a number
get_agents(a_agents) == IF IsNone(a_agents) THEN Some(1) ELSE Val(a_agents)

\* variant: the number of agents is left out of the total
compute_total_noagents(us, hs, d, ag) ==
    IF IsNone(d)
    THEN SumSeq([k \in 1..Len(us) |->
                    SumSeq([j \in 1..Len(Val(hs)) |-> Val(hs)[j] * us[k]])])
    ELSE 0

\* variant: the total is computed whenever there are hits
compute_total_anymode(us, hs, d, ag) ==
    LET sum == IF ~IsNone(hs)
               THEN SumSeq([k \in 1..Len(us) |->
                              SumSeq([j \in 1..Len(Val(hs)) |-> Val(hs)[j] * us[k]])])
               ELSE 0
    IN IF ~IsNone(ag) THEN sum * Val(ag) ELSE sum

\* total: 0 in duration mode, else the sum over the users of the sum over the
\* hits of hit * user, times the agents when agents is not None
compute_total(us, hs, d, ag) ==
    LET perUser == [k \in 1..Len(us) |->
                      SumSeq([j \in 1..Len(Val(hs)) |-> Val(hs)[j] * us[k]])]
        sum == IF IsNone(d) THEN SumSeq(perUser) ELSE 0
    IN IF IsNone(d) /\ ~IsNone(ag) THEN sum * Val(ag) ELSE sum

\* the conversions of _compute_arguments raise no ValueError
ArgsValid(a_users, a_hits, a_duration) ==
    /\ Parses(get_users(a_users))
    /\ LET h == get_hits(a_hits, a_duration) IN ~IsNone(h) => Parses(Val(h))

_compute_arguments(a_users, a_hits, a_duration, a_agents) ==
    LET us == IntList(get_users(a_users))
        h == get_hits(a_hits, a_duration)
        hs == IF IsNone(h) THEN None ELSE Some(IntList(Val(h)))
        ag == get_agents(a_agents)
    IN [total |-> compute_total(us, hs, a_duration, ag), hits |-> hs,
        duration |-> a_duration, users |-> us, agents |-> ag]

\* self.args after lines 81-84: hits, users, agents and total rewritten
Rewritten(g, r) ==
    [g EXCEPT !.users = Some(List(r.users)),
              !.hits = IF IsNone(r.hits) THEN None ELSE Some(List(Val(r.hits))),
              !.agents = Some(r.agents),
              !.total = Some(r.total)]

\* ---- the configurations explored ----
UsersArgs == SeqsUpTo(1..MaxUser, MaxLevels)
HitsArgs == {Some(h) : h \in SeqsUpTo(1..MaxHit, MaxHitsLen)} \cup {None}
\* the invocations a hit-count plan asks for
PlanTotal(u, h) == SumSeq(u) * (IF IsNone(h) THEN 1 ELSE SumSeq(Val(h)))
\* hit-count plans of at most MaxWorkers workers and MaxTotal invocations;
\* duration plans of at most MaxOrphans workers, each of which leaves an
\* inner loop behind, with hits configured as well
PlanArgs == {p \in [users : UsersArgs, hits : HitsArgs, duration : {None}] :
                /\ SumSeq(p.users) <= MaxWorkers
                /\ PlanTotal(p.users, p.hits) <= MaxTotal}
            \cup {[users |-> u, hits |-> h, duration |-> Some(Duration)] :
                u \in {x \in UsersArgs : SumSeq(x) <= MaxOrphans},
                h \in {Some(<<1>>)}}
\* the agents key is absent: args.get('agents', 1)
AgentsArgs == {None}
\* the args of a plan: users and hits given as lists
PlanGiven(p, a) ==
    [users |-> Some(List(p.users)),
     hits |-> IF IsNone(p.hits) THEN None ELSE Some(List(Val(p.hits))),
     duration |-> p.duration, agents |-> a, total |-> None]
\* the outputs of a local run: one that has flush() and no refresh(), then
\* one that has refresh() and no flush(), and so on
OutputsArgs == {[i \in 1..MaxOutputs |-> [flush |-> i % 2 = 1, refresh |-> i % 2 = 0]]}
\* the observers of a run
ObserversArgs == {[i \in 1..MaxObservers |-> [name |-> i]]}
\* what the calls of the observers may do: none of them fails, or every other
\* one raises
ObserverCalls ==
    {[i \in 1..Len(observers) |-> [name |-> observers[i].name, raises |-> FALSE]],
     [i \in 1..Len(observers) |-> [name |-> observers[i].name, raises |-> i % 2 = 1]]}

WIds == (1..MaxLevels) \X (0..(MaxUser - 1))
Sessions == 1..MaxSessions
Group(k) == {w \in WIds : k <= Len(users) /\ w[1] = k /\ w[2] < users[k]}

\* ---- Runner.__init__ ----
\* the plan of a runner constructed from the args g
Built(g) ==
    LET r == _compute_arguments(g.users, g.hits, g.duration, g.agents)
    IN /\ given = g
       /\ args = Rewritten(g, r)
       /\ users = r.users
       /\ hits = r.hits
       /\ duration = r.duration
       /\ agents = r.agents
       /\ total = r.total

\* the rest of the runner when __init__ returns
Fresh ==
    /\ slave \in BOOLEAN
    /\ test \in {"method", "plain"}
    /\ outputs \in (IF slave THEN {<<>>} ELSE OutputsArgs)
    /\ observers \in ObserversArgs
    /\ stop = FALSE
    /\ running = "unset"
    /\ level = 0
    /\ exception = "None"
    /\ wpc = [w \in WIds |-> "none"]
    /\ pos = [w \in WIds |-> <<0, 0>>]
    /\ ipc = [w \in WIds |-> "none"]
    /\ ihit = [w \in WIds |-> 0]
    /\ calls = [w \in WIds |-> <<>>]
    /\ nb_errors = 0
    /\ nb_failures = 0
    /\ gpc = "none"
    /\ refreshed = [i \in 1..Len(outputs) |-> 0]
    /\ sink = [startTestRun |-> 0, stopTestRun |-> 0, close |-> 0]
    /\ flushed = [i \in 1..Len(outputs) |-> 0]
    /\ notified = <<>>
    /\ finalized = 0
    /\ events = <<>>
    /\ retval = None
    /\ escaped = "None"
    /\ stopAtExecute = FALSE
    /\ interrupted = FALSE

RunnerInit ==
    /\ \E p \in PlanArgs, a \in AgentsArgs : Built(PlanGiven(p, a))
    /\ Fresh
    /\ mpc = "idle"

\* no request is under way and nothing was pushed; every other test case
\* has current_cycle and current_user
SessionInit ==
    /\ exposes = [s \in Sessions |-> s % 2 = 1]
    /\ inflight = [s \in Sessions |-> None]
    /\ stream \in {None, Some("custom")}
    /\ metrics = <<>>
    /\ now = 0
    /\ exchanges = <<>>

\* a runner as constructed; its test has not used its session yet
Init ==
    /\ RunnerInit
    /\ SessionInit
    /\ stream = None

\* the stop flag is set from outside, at any time
SetStop ==
    /\ ~stop
    /\ stop' = TRUE
    /\ UNCHANGED <<measurev, config, mainv, workv, countv, refv, finalv>>

\* ---- Runner.execute / Runner._execute: the main greenlet ----

\* the main greenlet is suspended in gevent.joinall or gevent.sleep(0)
MainYielded == mpc \in {"joinall", "sleep"}

\* variant: the wait ends as soon as one greenlet of the group is dead
joinall_first(group) == group = {} \/ \E w \in group : wpc[w] = "done"

\* gevent.joinall(group) returns once every greenlet of the group is dead
joinall(group) == \A w \in group : wpc[w] = "done"

\* variant: the capability tested is refresh, as in Runner.refresh
flush_refresh(outs) == [i \in 1..Len(outs) |-> IF outs[i].refresh THEN 1 ELSE 0]

\* Runner.flush: the flush() calls made, per output
flush(outs) == [i \in 1..Len(outs) |-> IF outs[i].flush THEN 1 ELSE 0]

\* variant: no try/except around the call, the first failure leaves the loop
test_ended_notry(obs) ==
    LET bad == {i \in 1..Len(obs) : obs[i].raises}
        last == IF bad = {} THEN Len(obs) ELSE CHOOSE i \in bad : \A j \in bad : i <= j
    IN [log |-> [i \in 1..last |-> [observer |-> obs[i].name, raised |-> obs[i].raises]],
        error |-> IF bad = {} THEN "None" ELSE "ObserverError"]

\* Runner.test_ended: the observers invoked and the exception that leaves
\* test_ended
test_ended(obs) ==
    [log |-> [i \in 1..Len(obs) |-> [observer |-> obs[i].name, raised |-> obs[i].raises]],
     error |-> "None"]

\* variant: no `except KeyboardInterrupt` clause
except_clauses_nointerrupt(e) == e

\* the except clauses of _execute: what is kept in `exception` to be raised
\* again after the finally block, for an exception e leaving the try body
except_clauses(e) == IF e = "KeyboardInterrupt" THEN "None" ELSE e

\* variant: the mode is not looked at
ExitStatus_anymode == IF (nb_errors + nb_failures) # 0 THEN 1 ELSE 0

\* the value execute() returns after _execute() has returned
ExitStatus == IF ~slave /\ (nb_errors + nb_failures) # 0 THEN 1 ELSE 0

\* variant: no try/finally in execute(), the flag is reset on a normal return only
execute_nofinally(exc) == IF exc # "None" THEN "true" ELSE "false"

\* the value self.running has when execute() is left, returning or raising exc
execute_finally(exc) == "false"

\* the finally block of _execute and the exit of execute(), entered with e
\* kept in `exception` and the sink in state s: flush or close, test_ended,
\* then the exception is raised again or execute() returns its status;
\* running is reset on both paths
Finish(e, s, ev) ==
    \E obs \in ObserverCalls :
    LET r == test_ended(obs)
        fl == flush(outputs)
        exc == IF e # "None" THEN e ELSE r.error
    IN /\ exception' = e
       /\ finalized' = finalized + 1
       /\ IF ~slave
          THEN /\ flushed' = [i \in 1..Len(outputs) |-> flushed[i] + fl[i]]
               /\ sink' = s
          ELSE /\ sink' = [s EXCEPT !.close = @ + 1]
               /\ UNCHANGED flushed
       /\ notified' = notified \o r.log
       /\ IF exc # "None"
          THEN /\ escaped' = exc
               /\ UNCHANGED retval
          ELSE /\ retval' = Some(ExitStatus)
               /\ UNCHANGED escaped
       /\ events' = events \o ev \o <<<<"finally", 0>>>>
                    \o (IF ~slave
                        THEN SelectSeq([i \in 1..Len(outputs) |-> <<"flush", i * fl[i]>>],
                                       LAMBDA x : x[2] > 0)
                        ELSE <<<<"close", 0>>>>)
                    \o [i \in 1..Len(r.log) |-> <<"observer", r.log[i].observer>>]
                    \o (IF execute_finally(exc) = "false" THEN <<<<"running", 0>>>> ELSE <<>>)
                    \o <<<<(IF exc # "None" THEN "raise" ELSE "return"), 0>>>>
       /\ running' = execute_finally(exc)
       /\ mpc' = "done"

\* execute() is called: running is set, then _execute() up to the for loop, or
\* to the end when the target check or startTestRun raises
Execute ==
    /\ mpc = "idle"
    /\ stopAtExecute' = stop
    /\ IF test # "method"
       THEN /\ Finish(except_clauses("ValueError"), sink, <<<<"running", 1>>>>)
            /\ UNCHANGED <<level, gpc>>
       ELSE /\ gpc' = "pending"   \* gevent.spawn(self._grefresh)
            /\ \E raises \in BOOLEAN :
                 IF raises
                 THEN /\ Finish(except_clauses("SinkError"),
                                [sink EXCEPT !.startTestRun = @ + 1],
                                <<<<"running", 1>>, <<"startTestRun", 0>>>>)
                      /\ UNCHANGED level
                 ELSE /\ running' = "true"
                      /\ sink' = [sink EXCEPT !.startTestRun = @ + 1]
                      /\ events' = events \o <<<<"running", 1>>, <<"startTestRun", 0>>>>
                      /\ mpc' = "loop"
                      /\ level' = 1
                      /\ UNCHANGED <<exception, retval, escaped, flushed, notified,
                                     finalized>>
    /\ UNCHANGED <<measurev, config, stop, interrupted, workv, countv, refreshed>>

\* variant: the loop does not look at the stop flag
LevelStart_nobreak ==
    /\ mpc = "loop"
    /\ IF level > Len(users)
       THEN /\ mpc' = "sleep"
            /\ events' = Append(events, <<"sleep", 0>>)
            /\ UNCHANGED wpc
       ELSE /\ wpc' = [w \in WIds |-> IF w \in Group(level) THEN "spawned" ELSE wpc[w]]
            /\ events' = Append(events, <<"spawn", level>>)
            /\ mpc' = "joinall"
    /\ UNCHANGED <<measurev, config, stop, running, level, exception, retval, escaped,
                   stopAtExecute, interrupted, pos, ipc, ihit, calls, countv, refv,
                   sink, flushed, notified, finalized>>

\* one turn of `for user in self.users`: break on stop, else spawn the group
LevelStart ==
    /\ mpc = "loop"
    /\ IF level > Len(users) \/ stop
       THEN /\ mpc' = "sleep"
            /\ events' = Append(events, <<"sleep", 0>>)
            /\ UNCHANGED wpc
       ELSE /\ wpc' = [w \in WIds |-> IF w \in Group(level) THEN "spawned" ELSE wpc[w]]
            /\ events' = Append(events, <<"spawn", level>>)
            /\ mpc' = "joinall"
    /\ UNCHANGED <<measurev, config, stop, running, level, exception, retval, escaped,
                   stopAtExecute, interrupted, pos, ipc, ihit, calls, countv, refv,
                   sink, flushed, notified, finalized>>

\* gevent.joinall(group) returns
JoinAll ==
    /\ mpc = "joinall"
    /\ joinall(Group(level))
    /\ level' = level + 1
    /\ events' = Append(events, <<"joinall", level>>)
    /\ mpc' = "loop"
    /\ UNCHANGED <<measurev, config, stop, running, exception, retval, escaped,
                   stopAtExecute, interrupted, workv, countv, refv,
                   sink, flushed, notified, finalized>>

\* variant: the sink is told the run is over without the last join
StopTestRun_early ==
    /\ mpc \in {"joinall", "sleep"}
    /\ \E raises \in BOOLEAN :
         Finish(IF raises THEN except_clauses("SinkError") ELSE exception,
                [sink EXCEPT !.stopTestRun = @ + 1],
                <<<<"stopTestRun", 0>>>>)
    /\ UNCHANGED <<measurev, config, stop, level, stopAtExecute, interrupted, workv, countv, refv>>

\* gevent.sleep(0) returns and the sink is told the run is over; then the
\* finally block and the exit of execute()
StopTestRun ==
    /\ mpc = "sleep"
    /\ \E raises \in BOOLEAN :
         Finish(IF raises THEN except_clauses("SinkError") ELSE exception,
                [sink EXCEPT !.stopTestRun = @ + 1],
                <<<<"stopTestRun", 0>>>>)
    /\ UNCHANGED <<measurev, config, stop, level, stopAtExecute, interrupted, workv, countv, refv>>

\* variant: the sink is told the run is over on an interrupt too
Interrupt_notifies ==
    /\ MainYielded
    /\ interrupted' = TRUE
    /\ Finish(except_clauses("KeyboardInterrupt"),
              [sink EXCEPT !.stopTestRun = @ + 1], <<<<"stopTestRun", 0>>>>)
    /\ UNCHANGED <<measurev, config, stop, level, stopAtExecute, workv, countv, refv>>

\* KeyboardInterrupt reaches the main greenlet while it waits in the try body;
\* then the finally block and the exit of execute()
Interrupt ==
    /\ MainYielded
    /\ interrupted' = TRUE
    /\ Finish(except_clauses("KeyboardInterrupt"), sink, <<>>)
    /\ UNCHANGED <<measurev, config, stop, level, stopAtExecute, workv, countv, refv>>

\* ---- Runner._run: one worker greenlet ----
hitsOf == Val(hits)

RECURSIVE FirstPos(_)
\* the first iteration of the nested loops at or after batch b, None if none is left
FirstPos(b) ==
    IF b > Len(hitsOf) THEN None
    ELSE IF hitsOf[b] > 0 THEN Some(<<b, 0>>) ELSE FirstPos(b + 1)

\* variant: one iteration too many in each batch
NextPos_offbyone(p) ==
    IF p[2] + 1 <= hitsOf[p[1]] THEN Some(<<p[1], p[2] + 1>>) ELSE FirstPos(p[1] + 1)

\* the iteration after <<b, c>> of `for hit in self.hits: for current_hit in range(hit)`
NextPos(p) ==
    IF p[2] + 1 < hitsOf[p[1]] THEN Some(<<p[1], p[2] + 1>>) ELSE FirstPos(p[1] + 1)

\* loads_status = hit, user, current_hit + 1, num
loads_status(w, p) == <<hitsOf[p[1]], users[w[1]], p[2] + 1, w[2]>>

\* the aggregator records the outcome of one invocation
Record(outcome) ==
    /\ outcome # "ok" => nb_errors + nb_failures < MaxErrors
    /\ nb_errors' = IF outcome = "error" THEN nb_errors + 1 ELSE nb_errors
    /\ nb_failures' = IF outcome = "failure" THEN nb_failures + 1 ELSE nb_failures

Outcomes == {"ok", "error", "failure"}

\* the hit-count worker enters the iteration o (None: the loops are over)
Advance(w, o) ==
    IF IsNone(o)
    THEN /\ wpc' = [wpc EXCEPT ![w] = "done"]
         /\ UNCHANGED <<pos, calls>>
    ELSE /\ wpc' = [wpc EXCEPT ![w] = "invoking"]
         /\ pos' = [pos EXCEPT ![w] = Val(o)]
         /\ calls' = [calls EXCEPT ![w] = Append(@, loads_status(w, Val(o)))]

\* variant: the hit loops are run whenever hits is set
hit_count_mode_byhits == ~IsNone(hits)

\* `if self.duration is None`: the hit loops, else the duration loop
hit_count_mode == IsNone(duration)

\* variant: the greenlet does not look at the stop flag
RunStart_nocheck(w) ==
    /\ MainYielded
    /\ wpc[w] = "spawned"
    /\ IF hit_count_mode
       THEN /\ Advance(w, FirstPos(1))
            /\ UNCHANGED ipc
       ELSE /\ ipc' = [ipc EXCEPT ![w] = "spawned"]
            /\ wpc' = [wpc EXCEPT ![w] = "joining"]
            /\ UNCHANGED <<pos, calls>>
    /\ UNCHANGED <<measurev, config, stop, mainv, ihit, countv, refv, finalv>>

\* variant: the stop flag is looked at in the hit-count branch only
RunStart_hitonly(w) ==
    /\ MainYielded
    /\ wpc[w] = "spawned"
    /\ IF hit_count_mode
       THEN IF stop
            THEN /\ wpc' = [wpc EXCEPT ![w] = "done"]
                 /\ UNCHANGED <<pos, ipc, calls>>
            ELSE /\ Advance(w, FirstPos(1))
                 /\ UNCHANGED ipc
       ELSE /\ ipc' = [ipc EXCEPT ![w] = "spawned"]
            /\ wpc' = [wpc EXCEPT ![w] = "joining"]
            /\ UNCHANGED <<pos, calls>>
    /\ UNCHANGED <<measurev, config, stop, mainv, ihit, countv, refv, finalv>>

\* the greenlet starts: the stop check, then the first test() call or the
\* spawn of the inner loop and the timer
RunStart(w) ==
    /\ MainYielded
    /\ wpc[w] = "spawned"
    /\ IF stop
       THEN /\ wpc' = [wpc EXCEPT ![w] = "done"]
            /\ UNCHANGED <<pos, ipc, calls>>
       ELSE IF hit_count_mode
            THEN /\ Advance(w, FirstPos(1))
                 /\ UNCHANGED ipc
            ELSE /\ ipc' = [ipc EXCEPT ![w] = "spawned"]
                 /\ wpc' = [wpc EXCEPT ![w] = "joining"]
                 /\ UNCHANGED <<pos, calls>>
    /\ UNCHANGED <<measurev, config, stop, mainv, ihit, countv, refv, finalv>>

\* test(loads_status=...) returns; the worker yields in gevent.sleep(0)
TestReturns(w) ==
    /\ MainYielded
    /\ wpc[w] = "invoking"
    /\ \E outcome \in Outcomes : Record(outcome)
    /\ wpc' = [wpc EXCEPT ![w] = "sleeping"]
    /\ UNCHANGED <<measurev, config, stop, mainv, pos, ipc, ihit, calls, refv, finalv>>

\* gevent.sleep(0) returns: the next iteration, or the end of _run
NextHit(w) ==
    /\ MainYielded
    /\ wpc[w] = "sleeping"
    /\ Advance(w, NextPos(pos[w]))
    /\ UNCHANGED <<measurev, config, stop, mainv, ipc, ihit, countv, refv, finalv>>

\* ---- duration mode: the inner spawn_test greenlet and the timer ----

\* iterations begun by the inner loops of all workers
TotalIter ==
    SumSeq([k \in 1..MaxLevels |-> SumSeq([i \in 1..MaxUser |-> ihit[<<k, i - 1>>]])])

\* one turn of `while True`: hit = hit + 1 and the test() call begins
SpawnTestInvoke(w) ==
    /\ MainYielded
    /\ ipc[w] \in {"spawned", "sleeping"}
    /\ TotalIter < MaxIter
    /\ ihit' = [ihit EXCEPT ![w] = @ + 1]
    /\ calls' = [calls EXCEPT ![w] = Append(@, <<0, users[w[1]], ihit[w] + 1, w[2]>>)]
    /\ ipc' = [ipc EXCEPT ![w] = "invoking"]
    /\ UNCHANGED <<measurev, config, stop, mainv, wpc, pos, countv, refv, finalv>>

\* the test() call of the inner loop returns; the loop yields in gevent.sleep(0)
SpawnTestReturns(w) ==
    /\ MainYielded
    /\ ipc[w] = "invoking"
    /\ \E outcome \in Outcomes : Record(outcome)
    /\ ipc' = [ipc EXCEPT ![w] = "sleeping"]
    /\ UNCHANGED <<measurev, config, stop, mainv, wpc, pos, ihit, calls, refv, finalv>>

\* variant: the timer is created but never started
Timeout_notstarted(w) ==
    /\ FALSE
    /\ UNCHANGED vars

\* the timer expires (or KeyboardInterrupt arrives) while the worker waits in
\* spawned_test.join: the exception is swallowed and _run returns; the inner
\* greenlet is left as it is
Timeout(w) ==
    /\ MainYielded
    /\ wpc[w] = "joining"
    /\ wpc' = [wpc EXCEPT ![w] = "done"]
    /\ UNCHANGED <<measurev, config, stop, mainv, pos, ipc, ihit, calls, countv, refv, finalv>>

\* ---- Runner.refresh / Runner._grefresh ----

\* variant: the capability tested is flush, as in Runner.flush
refresh_flush(outs) == [i \in 1..Len(outs) |-> IF outs[i].flush THEN 1 ELSE 0]

\* Runner.refresh: the refresh() calls made, per output
refresh(outs) == [i \in 1..Len(outs) |-> IF outs[i].refresh THEN 1 ELSE 0]

\* variant: the next tick is scheduled whatever the stop flag
reschedule_always == "pending"

\* the end of _grefresh: spawn_later(.1, self._grefresh) unless stop is set
reschedule == IF ~stop THEN "pending" ELSE "dead"

\* one tick of _grefresh, run by the hub while the main greenlet is suspended
Grefresh ==
    /\ MainYielded
    /\ gpc = "pending"
    /\ stop \/ \A i \in 1..Len(outputs) : refreshed[i] < MaxTicks
    /\ refreshed' = [i \in 1..Len(outputs) |-> refreshed[i] + refresh(outputs)[i]]
    /\ gpc' = reschedule
    /\ UNCHANGED <<measurev, config, stop, mainv, workv, countv, finalv>>

\* ---- loads.measure.Session: the HTTP session of a test case ----

Hosts == {"host1", "host2"}
StatusCodes == {200, 500}
HostName(h) == <<"name", h>>
Address(h) == <<"address", h>>
\* the requests a test prepares
Requests == {[url |-> [host |-> HostName("host1"), path |-> "/"], method |-> "GET"],
             [url |-> [host |-> HostName("host2"), path |-> "/"], method |-> "POST"]}

\* loads.util.dns_resolve: the url with the host replaced by its address, the
\* original host, the address
dns_resolve(url) ==
    [url |-> [url EXCEPT !.host = Address(url.host[2])],
     original |-> url.host,
     resolved |-> Address(url.host[2])]

\* requests dispatched so far: exchanges that ended and exchanges under way
Dispatched == Len(exchanges) + Cardinality({s \in Sessions : ~IsNone(inflight[s])})

\* variant: the timestamp is taken when the response is there
started_late(s) == now

\* res.started = start: the timestamp taken before _Session.send was called
started(s) == Val(inflight[s]).start

\* the response as send() completes it: started, method, and the cycle and
\* user of the test when it has them
Response(s, status) ==
    LET rq == Val(inflight[s])
    IN [status_code |-> status,
        url |-> rq.url,
        elapsed |-> now - rq.sent,
        started |-> started(s),
        method |-> rq.method,
        current_cycle |-> IF exposes[s] THEN Some(1) ELSE None,
        current_user |-> IF exposes[s] THEN Some(s) ELSE None]

\* variant: nothing is pushed when no stream was configured
_measure_nodefault(req) ==
    IF IsNone(stream) THEN <<>>
    ELSE <<[stream |-> Val(stream),
            data |-> [elapsed |-> req.elapsed, started |-> req.started,
                      status |-> req.status_code, url |-> req.url,
                      method |-> req.method,
                      cycle |-> req.current_cycle, user |-> req.current_user]]>>

\* Session._measure: the data pushed, and the stream it is pushed to (the
\* global stream, or the stdout stream set up when there is none)
_measure(req) ==
    <<[stream |-> IF IsNone(stream) THEN "stdout" ELSE Val(stream),
       data |-> [elapsed |-> req.elapsed, started |-> req.started,
                 status |-> req.status_code, url |-> req.url,
                 method |-> req.method,
                 cycle |-> req.current_cycle, user |-> req.current_user]]>>

\* Session.send up to the call of _Session.send: the host is resolved, the
\* Host header set, the clock read and the request handed to the HTTP client
Send(s, r) ==
    /\ IsNone(inflight[s])
    /\ Dispatched < MaxRequests
    /\ LET d == dns_resolve(r.url)
       IN inflight' = [inflight EXCEPT ![s] =
                         Some([url |-> d.url, host |-> d.original, method |-> r.method,
                               start |-> now, sent |-> now])]
    /\ UNCHANGED <<runnerv, exposes, stream, metrics, now, exchanges>>

\* time passes
Tick ==
    /\ now < MaxClock
    /\ now' = now + 1
    /\ UNCHANGED <<runnerv, exposes, inflight, stream, metrics, exchanges>>

\* _Session.send returns a response: send() tags it, _measure pushes the
\* data, send() returns
SendReturns(s) ==
    /\ ~IsNone(inflight[s])
    /\ \E status \in StatusCodes :
         LET res == Response(s, status)
             pushes == _measure(res)
         IN /\ metrics' = metrics \o pushes
            /\ stream' = IF pushes # <<>> /\ IsNone(stream) THEN Some("stdout") ELSE stream
            /\ exchanges' = Append(exchanges,
                                [session |-> s, url |-> res.url, method |-> res.method,
                                 status |-> Some(status), sent |-> Val(inflight[s]).sent,
                                 ended |-> now])
    /\ inflight' = [inflight EXCEPT ![s] = None]
    /\ UNCHANGED <<runnerv, exposes, now>>

\* _Session.send raises (no connection, a timeout): the exception leaves send()
SendRaises(s) ==
    /\ ~IsNone(inflight[s])
    /\ exchanges' = Append(exchanges,
                          [session |-> s, url |-> Val(inflight[s]).url,
                           method |-> Val(inflight[s]).method,
                           status |-> None, sent |-> Val(inflight[s]).sent,
                           ended |-> now])
    /\ inflight' = [inflight EXCEPT ![s] = None]
    /\ UNCHANGED <<runnerv, exposes, stream, metrics, now>>

Next ==
    \/ SetStop
    \/ Execute
    \/ LevelStart
    \/ JoinAll
    \/ StopTestRun
    \/ Interrupt
    \/ \E w \in WIds : RunStart(w)
    \/ \E w \in WIds : TestReturns(w)
    \/ \E w \in WIds : NextHit(w)
    \/ \E w \in WIds : SpawnTestInvoke(w)
    \/ \E w \in WIds : SpawnTestReturns(w)
    \/ \E w \in WIds : Timeout(w)
    \/ Grefresh

Spec == Init /\ [][Next]_vars

\* ---- the construction of the plan from the args, on its own ----

\* the strings given for users and hits: digits and colons, well formed or not
Strings == SeqsUpTo({Zero + 1, Zero + 2, Colon}, MaxStrLen)

\* the args explored: users and hits absent, a string or a list; duration
\* absent or set; agents absent, None or a number
GivenArgs ==
    [users : {None} \cup {Some(Str(cs)) : cs \in Strings}
                    \cup {Some(List(u)) : u \in UsersArgs},
     hits : {None} \cup {Some(Str(cs)) : cs \in Strings}
                   \cup {Some(List(Val(h))) : h \in HitsArgs \ {None}},
     duration : {None, Some(Duration)},
     agents : {None, Some(None)} \cup {Some(Some(n)) : n \in 0..MaxAgents},
     total : {None}]

\* Runner(args) has been called and _compute_arguments has not run yet
ArgsInit ==
    /\ given \in GivenArgs
    /\ args = given
    /\ users = <<>>
    /\ hits = None
    /\ duration = None
    /\ agents = None
    /\ total = 0
    /\ Fresh
    /\ ~slave /\ test = "method"
    /\ mpc = "new"
    /\ SessionInit
    /\ stream = None

\* lines 78-84 of Runner.__init__: the plan is computed and the args are
\* rewritten, or a conversion raises ValueError and there is no runner
Construct ==
    /\ mpc = "new"
    /\ IF ArgsValid(given.users, given.hits, given.duration)
       THEN LET r == _compute_arguments(given.users, given.hits, given.duration,
                                        given.agents)
            IN /\ args' = Rewritten(args, r)
               /\ users' = r.users
               /\ hits' = r.hits
               /\ duration' = r.duration
               /\ agents' = r.agents
               /\ total' = r.total
               /\ mpc' = "idle"
       ELSE /\ mpc' = "failed"
            /\ UNCHANGED <<args, users, hits, duration, agents, total>>
    /\ UNCHANGED <<measurev, given, slave, test, outputs, observers, stop, running,
                   level, exception, retval, escaped, stopAtExecute, interrupted,
                   workv, countv, refv, finalv>>

ArgsNext == Construct

ArgsSpec == ArgsInit /\ [][ArgsNext]_vars

\* the sessions of the test cases, with the runner left as constructed: one
\* greenlet is inside send() per session, the exchanges overlap
MeasureInit ==
    /\ Built(PlanGiven([users |-> <<1>>, hits |-> None, duration |-> None], None))
    /\ Fresh
    /\ mpc = "idle"
    /\ SessionInit
    /\ ~slave /\ test = "method"

MeasureNext ==
    \/ \E s \in Sessions, r \in Requests : Send(s, r)
    \/ Tick
    \/ \E s \in Sessions : SendReturns(s)
    \/ \E s \in Sessions : SendRaises(s)

MeasureSpec == MeasureInit /\ [][MeasureNext]_vars

\* gevent's hub runs every greenlet that is ready and fires every timer that
\* is due: the main greenlet, the start of each worker and each worker's timer
\* are not postponed for ever.  Nothing is assumed of the test target.
Fairness ==
    /\ WF_vars(LevelStart)
    /\ WF_vars(JoinAll)
    /\ WF_vars(StopTestRun)
    /\ \A w \in WIds : WF_vars(RunStart(w)) /\ WF_vars(Timeout(w))

\* the local runs in duration mode
InitLive ==
    /\ Init
    /\ ~slave
    /\ ~IsNone(duration)

\* the steps of a run in duration mode: those of Next, less the steps of the
\* hit-count loops, which _run does not enter when a duration is set
NextLive ==
    \/ SetStop
    \/ Execute
    \/ LevelStart
    \/ JoinAll
    \/ StopTestRun
    \/ Interrupt
    \/ \E w \in WIds : RunStart(w)
    \/ \E w \in WIds : SpawnTestInvoke(w)
    \/ \E w \in WIds : SpawnTestReturns(w)
    \/ \E w \in WIds : Timeout(w)
    \/ Grefresh

FairSpec == InitLive /\ [][NextLive]_vars /\ Fairness

\* ---- properties ----

\* finalization as the finally block of _execute performs it, once: in local
\* mode one flush() per output that has flush and no close of the relay, in
\* relay mode one close(); then every observer once, in order
FlushedOnce ==
    IF ~slave
    THEN /\ \A i \in 1..Len(outputs) : flushed[i] = (IF outputs[i].flush THEN 1 ELSE 0)
         /\ sink.close = 0
    ELSE sink.close = 1
NotifiedOnce ==
    /\ Len(notified) = Len(observers)
    /\ \A i \in 1..Len(observers) : notified[i].observer = observers[i].name
NothingFinalized ==
    /\ \A i \in 1..Len(outputs) : flushed[i] = 0
    /\ sink.close = 0
    /\ notified = <<>>
    /\ \A j \in 1..Len(events) : events[j][1] \in {"running", "startTestRun", "spawn", "joinall",
                                                     "sleep", "stopTestRun"}

\* position in events of the one event <<name, arg>>, 0 when there is not exactly one
At(name, arg) ==
    LET js == {j \in 1..Len(events) : events[j] = <<name, arg>>}
    IN IF Cardinality(js) = 1 THEN CHOOSE j \in js : TRUE ELSE 0

\* the finalization events are there once each and in order: the finally
\* block is entered, then the flushes or the close, then the observers in
\* the order of the list, then the exit of execute()
FinalizedInOrder ==
    LET exit == IF escaped # "None" THEN "raise" ELSE "return"
    IN /\ At("finally", 0) > 0
       /\ At(exit, 0) = Len(events)
       /\ \A i \in 1..Len(outputs) :
             IF ~slave /\ outputs[i].flush
             THEN At("finally", 0) < At("flush", i)
                  /\ \A o \in 1..Len(observers) : At("flush", i) < At("observer", o)
             ELSE \A j \in 1..Len(events) : events[j] # <<"flush", i>>
       /\ IF slave
          THEN At("finally", 0) < At("close", 0)
               /\ \A o \in 1..Len(observers) : At("close", 0) < At("observer", o)
          ELSE \A j \in 1..Len(events) : events[j] # <<"close", 0>>
       /\ \A o \in 1..Len(observers) :
             /\ At("finally", 0) < At("observer", o)
             /\ At("observer", o) < At(exit, 0)
             /\ o > 1 => At("observer", o - 1) < At("observer", o)

\* C1: for consecutive levels L1, L2 of the plan, a worker of L2 has begun an
\* invocation of the test target only if every worker of L1 has returned
\* (finished its hits, or left its join on the duration timeout).
C1_Barrier ==
    \A k \in 1..(Len(users) - 1) :
        \A w2 \in Group(k + 1) :
            calls[w2] # <<>> => \A w1 \in Group(k) : wpc[w1] = "done"

C1_Witness ==
    /\ Len(users) = 2
    /\ users[1] = 2
    /\ \E w2 \in Group(2) : calls[w2] # <<>>

\* C2: when stop is set before execute() is called, no worker is ever spawned
\* and no invocation of the test target begins; finalization (flush or close,
\* then the observers) has run exactly once when execute() is over.
C2_StopBeforeExecute ==
    (mpc # "idle" /\ stopAtExecute) =>
        /\ \A w \in WIds : wpc[w] = "none" /\ calls[w] = <<>> /\ ipc[w] = "none"
        /\ finalized <= 1
        /\ mpc = "done" => finalized = 1 /\ FlushedOnce /\ NotifiedOnce

C2_Witness ==
    /\ mpc = "done"
    /\ stopAtExecute
    /\ test = "method"
    /\ Len(users) = 2
    /\ Len(observers) > 0

\* C3: on every exit path of the orchestration body the finally block runs
\* exactly once: nothing is flushed, closed or notified before it; in it the
\* flushable outputs are flushed once and the relay is not closed (local
\* mode) or the relay is closed once (relay mode), then every observer is
\* invoked once; the captured exception leaves execute() only after that.
C3_FinalizationOnce ==
    /\ finalized <= 1
    /\ mpc # "done" => finalized = 0 /\ NothingFinalized /\ escaped = "None"
    /\ mpc = "done" =>
          /\ finalized = 1
          /\ FlushedOnce
          /\ NotifiedOnce
          /\ FinalizedInOrder
          /\ escaped = exception

C3_Witness ==
    /\ mpc = "done"
    /\ escaped = "SinkError"
    /\ sink.stopTestRun = 1
    /\ ~slave
    /\ \E i \in 1..Len(outputs) : outputs[i].flush
    /\ Len(observers) > 0

\* the loads_status tuples of one hit-count worker that runs to its end
RECURSIVE Batches(_, _, _)
Batches(hs, u, num) ==
    IF hs = <<>> THEN <<>>
    ELSE [c \in 1..Head(hs) |-> <<Head(hs), u, c, num>>] \o Batches(Tail(hs), u, num)

\* invocations of the test target begun so far, over all workers
TotalCalls ==
    SumSeq([k \in 1..MaxLevels |->
              SumSeq([i \in 1..MaxUser |-> Len(calls[<<k, i - 1>>])])])

\* C4 as claimed: once stop is set, no further level is started and a running
\* hit-count worker begins no new invocation of the test target.
C4_StopHaltsRunningWorkers ==
    [][(stop /\ IsNone(duration)) =>
          \A w \in WIds :
              /\ wpc[w] = "none" => wpc'[w] = "none"
              /\ calls'[w] = calls[w]]_vars

\* C4 as amended: the stop flag is read before each level is started and once
\* when a worker starts, not in the per-hit loop.  Once stop is set no further
\* level is started and a worker that has not started yet begins no
\* invocation; a hit-count worker that has begun its loop performs all the
\* invocations of its plan whether or not stop is set meanwhile.
C4_StopCheckedAtStart ==
    /\ [][stop =>
            \A w \in WIds :
                /\ wpc[w] = "none" => wpc'[w] = "none"
                /\ wpc[w] = "spawned" => wpc'[w] \in {"spawned", "done"}
                                         /\ calls'[w] = <<>> /\ ipc'[w] = "none"]_vars
    /\ [](IsNone(duration) =>
            \A w \in WIds :
                (wpc[w] = "done" /\ calls[w] # <<>>) =>
                    calls[w] = Batches(hitsOf, users[w[1]], w[2]))

\* stop was set while a hit-count worker had invocations left, which it made;
\* another worker of the same level saw stop when it started; the next level
\* was not started
C4_Witness ==
    /\ stop
    /\ IsNone(duration)
    /\ mpc = "done"
    /\ Len(users) = 2
    /\ users[1] = 2
    /\ \A w \in Group(2) : wpc[w] = "none"
    /\ wpc[<<1, 0>>] = "done" /\ Len(calls[<<1, 0>>]) > 1
    /\ wpc[<<1, 1>>] = "done" /\ calls[<<1, 1>>] = <<>>

\* C6: in hit-count mode, when stop is never set, nothing raises and no
\* interrupt arrives, the run makes sum_u sum_h h*u invocations (the
\* precomputed total when agents = 1) and worker num of level u made, in
\* order, the calls (H, u, 1, num) .. (H, u, H, num) for each batch H of hits.
C6_HitCountInvocations ==
    (/\ mpc = "done"
     /\ IsNone(duration)
     /\ ~stop
     /\ ~interrupted
     /\ escaped = "None") =>
        /\ TotalCalls = SumSeq(users) * SumSeq(hitsOf)
        /\ agents = Some(1) => TotalCalls = total
        /\ \A k \in 1..Len(users) : \A w \in Group(k) :
              calls[w] = Batches(hitsOf, users[k], w[2])
        /\ \A w \in WIds : w \notin UNION {Group(k) : k \in 1..Len(users)} => calls[w] = <<>>

C6_Witness ==
    /\ mpc = "done"
    /\ IsNone(duration)
    /\ ~stop /\ ~interrupted /\ escaped = "None"
    /\ users = <<2, 1>>
    /\ hitsOf = <<1, 1>>
    /\ TotalCalls = 6

\* C7: execute() returns 1 exactly when the runner is in local mode and the
\* errors and failures counted are not both zero when _execute() has returned;
\* every other return, and every return in relay mode, is 0.
C7_ExitStatus ==
    mpc = "done" =>
        IF escaped # "None" THEN retval = None
        ELSE /\ retval \in {Some(0), Some(1)}
             /\ retval = Some(1) <=> (~slave /\ (nb_errors > 0 \/ nb_failures > 0))

\* a relay run that reported a failure and returned 0
C7_Witness ==
    /\ mpc = "done"
    /\ slave
    /\ nb_failures > 0
    /\ retval = Some(0)

\* C8: when an observer raises, every observer of the list is still invoked
\* once, in order; nothing but the exception captured by the orchestration
\* body leaves execute(), and the value returned is the one the mode and the
\* counts of the aggregator give.
C8_ObserverFailure ==
    (mpc = "done" /\ \E i \in 1..Len(notified) : notified[i].raised) =>
        /\ [i \in 1..Len(notified) |-> notified[i].observer]
              = [i \in 1..Len(observers) |-> observers[i].name]
        /\ \A i \in 1..Len(observers) : At("observer", observers[i].name) > 0
        /\ exception \in {"None", "ValueError", "SinkError"}
        /\ escaped = exception
        /\ exception = "None" =>
              retval = Some(IF slave THEN 0
                            ELSE IF nb_errors + nb_failures = 0 THEN 0 ELSE 1)

\* the first observer raised, the second was invoked, execute() returned 1
C8_Witness ==
    /\ mpc = "done"
    /\ Len(observers) >= 2
    /\ Len(notified) = Len(observers)
    /\ notified[1].raised
    /\ ~notified[2].raised
    /\ retval = Some(1)

\* C9: a KeyboardInterrupt that reaches the orchestration body is swallowed:
\* the finally block still runs once and execute() returns 0 or 1; what leaves
\* execute() is never the interrupt, only an exception other than it that the
\* orchestration body raised.
C9_InterruptSwallowed ==
    /\ escaped \in {"None", "ValueError", "SinkError"}
    /\ interrupted =>
          /\ mpc = "done"
          /\ exception = "None"
          /\ escaped = "None"
          /\ retval \in {Some(0), Some(1)}
          /\ finalized = 1 /\ FlushedOnce /\ NotifiedOnce
          /\ At("return", 0) = Len(events)

\* interrupted while a level was running; execute() returned
C9_Witness ==
    /\ interrupted
    /\ mpc = "done"
    /\ \E w \in WIds : wpc[w] \in {"invoking", "sleeping", "joining"}
    /\ retval # None

\* C5 as claimed: in duration mode, once a worker whose inner loop was
\* running has returned on its timer, that loop begins no further invocation
\* of the test target.
C5_NoInvocationAfterTimeout ==
    [][\A w \in WIds :
          (~IsNone(duration) /\ wpc[w] = "done" /\ ipc[w] \in {"invoking", "sleeping"})
              => Len(calls'[w]) = Len(calls[w])]_vars

\* C10: in duration mode an execute() that has been called reaches its end:
\* every worker leaves its join when its timer expires, every level's
\* joinall returns, the finally block runs and execute() is over.
C10_DurationRunEnds ==
    (~IsNone(duration) /\ mpc # "idle") ~> (mpc = "done" /\ finalized = 1)

\* a duration run of two levels is over while inner loops are still in a call
C10_Witness ==
    /\ ~IsNone(duration)
    /\ mpc = "done"
    /\ ~interrupted /\ ~stop
    /\ Len(users) = 2
    /\ \A k \in 1..2 : \A w \in Group(k) : wpc[w] = "done"
    /\ \E w \in WIds : ipc[w] = "invoking"

\* C11: a tick of the refresh loop calls refresh() once on each output that
\* has it, and on no other, and schedules the next tick exactly when stop is
\* not set; a loop that has seen stop set is dead for good: no tick and no
\* refresh() after that.
C11_RefreshLoop ==
    [][/\ (gpc = "pending" /\ refv' # refv) =>
             /\ refreshed' = [i \in 1..Len(outputs) |->
                                 refreshed[i] + (IF outputs[i].refresh THEN 1 ELSE 0)]
             /\ gpc' = (IF stop THEN "dead" ELSE "pending")
       /\ gpc = "dead" => refv' = refv
       /\ gpc = "none" => refreshed' = refreshed]_vars

\* a tick found stop unset and scheduled the next one, which found it set
C11_Witness ==
    /\ gpc = "dead"
    /\ ~slave
    /\ \E i \in 1..Len(outputs) : outputs[i].refresh /\ refreshed[i] = 2
    /\ \E i \in 1..Len(outputs) : ~outputs[i].refresh /\ refreshed[i] = 0

\* C12: self.running is set when execute() starts and stays true through the
\* orchestration and the finalization; it is false once execute() has been
\* left, by a return of 0 or 1 or by an exception.
C12_RunningFlag ==
    /\ mpc = "idle" => running = "unset" /\ events = <<>>
    /\ mpc \in {"loop", "joinall", "sleep"} =>
          /\ running = "true"
          /\ At("running", 1) = 1
          /\ \A j \in 1..Len(events) : events[j] # <<"running", 0>>
    /\ mpc = "done" =>
          /\ running = "false"
          /\ retval \in {Some(0), Some(1)} \/ escaped # "None"
          /\ At("running", 1) = 1
          /\ At("running", 0) = Len(events) - 1
          /\ At("finally", 0) > 1

\* execute() was left by the exception of stopTestRun, after an orchestration
\* that ran its levels
C12_Witness ==
    /\ mpc = "done"
    /\ running = "false"
    /\ escaped = "SinkError"
    /\ sink.stopTestRun = 1
    /\ \E w \in WIds : calls[w] # <<>>

\* the exchanges that ended with a response
Answered == SelectSeq(exchanges, LAMBDA e : ~IsNone(e.status))

AgentFactor == IF IsNone(agents) THEN 1 ELSE Val(agents)

\* C14: when duration is unset, hits is set (to [1] if it was absent) and the
\* total is agents times the sum over the users u and the hits h of h * u,
\* that is agents * (sum of users) * (sum of hits), for users and hits given as
\* colon-separated strings or as lists; the total is also written to args.
C14_TotalHitCount ==
    (mpc = "idle" /\ IsNone(duration)) =>
        /\ ~IsNone(hits)
        /\ total = AgentFactor * SumSeq(users) * SumSeq(Val(hits))
        /\ args.total = Some(total)
        /\ given.users = Some(Str(<<Zero + 2, Colon, Zero + 1>>)) => users = <<2, 1>>
        /\ given.hits = Some(Str(<<Zero + 1, Zero + 2>>)) => hits = Some(<<12>>)
        /\ IsNone(given.hits) => hits = Some(<<1>>)
        /\ IsNone(given.users) => users = <<1>>

\* users "2:1", hits "1:2", two agents: 2 * 3 * 3
C14_Witness ==
    /\ mpc = "idle"
    /\ IsNone(duration)
    /\ given.users = Some(Str(<<Zero + 2, Colon, Zero + 1>>))
    /\ given.hits = Some(Str(<<Zero + 1, Colon, Zero + 2>>))
    /\ agents = Some(2)
    /\ total = 18

\* C15: when duration is set the total is 0, whatever hits, users and agents.
C15_TotalDuration ==
    (mpc = "idle" /\ ~IsNone(duration)) =>
        /\ total = 0
        /\ args.total = Some(0)
        /\ IsNone(given.hits) <=> IsNone(hits)

\* a duration plan with hits, several users and two agents
C15_Witness ==
    /\ mpc = "idle"
    /\ ~IsNone(duration)
    /\ hits = Some(<<2, 2>>)
    /\ users = <<2, 1>>
    /\ agents = Some(2)
    /\ total = 0

\* C16: one of hits and duration governs the iterations of every worker.
\* Without a duration there are hits ([1] when none were given), no worker
\* has an inner loop or a timer, and a worker makes at most sum(hits)
\* invocations, each with a batch size of hits in its status; with a duration
\* no worker runs the hit loops, even when hits are configured: every
\* invocation is the n-th of an inner loop, with status (0, user, n, num).
C16_OneGoverns ==
    /\ IsNone(duration) =>
          /\ ~IsNone(hits)
          /\ IsNone(given.hits) => hits = Some(<<1>>)
          /\ \A w \in WIds :
                /\ ipc[w] = "none" /\ ihit[w] = 0
                /\ wpc[w] # "joining"
                /\ Len(calls[w]) <= SumSeq(hitsOf)
                /\ \A c \in 1..Len(calls[w]) :
                      \E b \in 1..Len(hitsOf) : calls[w][c][1] = hitsOf[b]
    /\ ~IsNone(duration) =>
          /\ total = 0
          /\ \A w \in WIds :
                /\ wpc[w] \notin {"invoking", "sleeping"}
                /\ pos[w] = <<0, 0>>
                /\ Len(calls[w]) = ihit[w]
                /\ \A c \in 1..Len(calls[w]) :
                      calls[w][c] = <<0, users[w[1]], c, w[2]>>

\* a duration plan with hits [1] configured whose worker has begun more
\* invocations than the hits allow
C16_Witness ==
    /\ ~IsNone(duration)
    /\ hits = Some(<<1>>)
    /\ \E w \in WIds : Len(calls[w]) > SumSeq(hitsOf)

\* C17: a worker that finds stop set when it first runs returns at once: it
\* begins no invocation of the test target and spawns no inner loop, then or
\* later, in hit-count mode and in duration mode.
C17_StopAtWorkerStart ==
    [][\A w \in WIds :
          /\ (wpc[w] = "spawned" /\ stop /\ wpc'[w] # "spawned") =>
                 (wpc'[w] = "done" /\ calls'[w] = <<>> /\ ipc'[w] = "none")
          /\ (wpc[w] = "done" /\ calls[w] = <<>> /\ ipc[w] = "none") =>
                 (wpc'[w] = "done" /\ calls'[w] = <<>> /\ ipc'[w] = "none")]_vars

\* duration mode: stop was set after the level was spawned and after one of
\* its workers had begun to invoke the target; the other worker found it set
C17_Witness ==
    /\ ~IsNone(duration)
    /\ stop
    /\ ~stopAtExecute
    /\ calls[<<1, 0>>] # <<>>
    /\ wpc[<<1, 1>>] = "done"
    /\ calls[<<1, 1>>] = <<>>
    /\ ipc[<<1, 1>>] = "none"

\* the levels whose workers were spawned
Spawned == {k \in 1..MaxLevels : \E j \in 1..Len(events) : events[j] = <<"spawn", k>>}

\* C18: within one execute(), startTestRun is called before any worker is
\* spawned, so before any invocation of the test target; stopTestRun is
\* called at most once, after startTestRun and after the join of every level
\* that was started; the flushes or the close of the relay and the observers
\* come after stopTestRun, when it is called, and before execute() is left.
C18_LifecycleOrder ==
    LET start == At("startTestRun", 0)
        stopped == At("stopTestRun", 0)
        spawned == Spawned
    IN /\ \A w \in WIds : (wpc[w] # "none" \/ calls[w] # <<>>) => w[1] \in spawned
       /\ \A k \in spawned :
             /\ At("spawn", k) > 0
             /\ start > 0
             /\ start < At("spawn", k)
             /\ sink.startTestRun = 1
       /\ sink.stopTestRun <= 1
       /\ sink.stopTestRun = 1 <=> stopped > 0
       /\ sink.stopTestRun = 1 =>
             /\ start > 0
             /\ start < stopped
             /\ \A k \in spawned :
                   /\ At("spawn", k) < At("joinall", k)
                   /\ At("joinall", k) < stopped
       /\ \A j \in 1..Len(events) :
             events[j][1] \in {"flush", "close", "observer"} =>
                 /\ stopped < j
                 /\ mpc = "done"
                 /\ j < Len(events)
                 /\ events[Len(events)][1] \in {"return", "raise"}

\* a local run of two levels that ended with stopTestRun, flushes and observers
C18_Witness ==
    /\ mpc = "done"
    /\ ~slave
    /\ Spawned = {1, 2}
    /\ sink.stopTestRun = 1
    /\ At("flush", 1) > 0
    /\ At("observer", 2) > 0
    /\ \E w \in Group(2) : calls[w] # <<>>

\* C19: stopTestRun is called once exactly when the for loop was left without
\* an exception (every level done, or a break on stop) and the yield that
\* follows it was not interrupted; it is not called before that, and never
\* when the target check or startTestRun raises or when an interrupt reaches
\* the orchestration, though the finally block runs in all these cases.
C19_StopTestRunIffLoopExit ==
    /\ sink.stopTestRun <= 1
    /\ mpc # "done" => sink.stopTestRun = 0
    /\ mpc = "done" =>
          /\ finalized = 1
          /\ sink.stopTestRun = 1 <=> (At("sleep", 0) > 0 /\ ~interrupted)
          /\ interrupted => sink.stopTestRun = 0
          /\ At("sleep", 0) = 0 => sink.stopTestRun = 0
          /\ At("sleep", 0) > 0 =>
                \A k \in Spawned : At("joinall", k) > 0 /\ At("joinall", k) < At("sleep", 0)

\* an interrupt reached the orchestration while it waited for a level, after
\* startTestRun: no stopTestRun, and the finalization ran
C19_Witness ==
    /\ mpc = "done"
    /\ interrupted
    /\ sink.startTestRun = 1
    /\ sink.stopTestRun = 0
    /\ Spawned = {1}
    /\ At("joinall", 1) = 0
    /\ finalized = 1
    /\ NotifiedOnce

\* the test-target invocations in flight: those of the hit-count workers and
\* those of the inner loops of the duration workers
InFlight == {w \in WIds : wpc[w] = "invoking" \/ ipc[w] = "invoking"}

\* C20 as claimed: while a concurrency level is being executed (the main
\* greenlet waits in that level's joinall) the test-target invocations in
\* flight are at most that level's number of users, and no worker has more
\* than one invocation in flight.
C20_ConcurrencyBound ==
    /\ mpc = "joinall" => Cardinality(InFlight) <= users[level]
    /\ \A w \in WIds : ~(wpc[w] = "invoking" /\ ipc[w] = "invoking")

====
